---- MODULE Spec2Model ----
(***************************************************************************)
(* JSON Tree Visualizer: the tree builder (jsonToTree), the layout         *)
(* flattener (treeToFlow), the path matcher (searchNodes) and the host     *)
(* component (App) that owns the mutable state.                            *)
(*                                                                         *)
(* A JavaScript string is a sequence of one-character strings, so that     *)
(* trim, startsWith, includes, replace and split are computed.             *)
(***************************************************************************)
EXTENDS Integers, Sequences, FiniteSets, TLC

\* ------------------------------------------------------------------------
\* Bounds of the model
\* ------------------------------------------------------------------------

\* the generated JSON values have at most this many locations (nodes)
MaxNodes == 3

\* ------------------------------------------------------------------------
\* JavaScript strings
\* ------------------------------------------------------------------------

\* the white space String.prototype.trim removes (the part of it used here)
WhiteSpace == {" ", "\t", "\n", "\r"}

Digits == <<"0", "1", "2", "3", "4", "5", "6", "7", "8", "9">>

DigitSet == {Digits[i] : i \in 1..10}

DigitVal(c) == (CHOOSE i \in 1..10 : Digits[i] = c) - 1

RECURSIVE NatToStr(_)
\* String(n) of a non-negative integer
NatToStr(n) ==
  IF n < 10 THEN <<Digits[n + 1]>>
  ELSE NatToStr(n \div 10) \o <<Digits[(n % 10) + 1]>>

RECURSIVE StrToNat(_)
\* the number a string of digits denotes
StrToNat(s) ==
  IF s = <<>> THEN 0
  ELSE 10 * StrToNat(SubSeq(s, 1, Len(s) - 1)) + DigitVal(s[Len(s)])

RECURSIVE TrimStart(_)
TrimStart(s) ==
  IF s # <<>> /\ s[1] \in WhiteSpace THEN TrimStart(Tail(s)) ELSE s

RECURSIVE TrimEnd(_)
TrimEnd(s) ==
  IF s # <<>> /\ s[Len(s)] \in WhiteSpace
  THEN TrimEnd(SubSeq(s, 1, Len(s) - 1)) ELSE s

\* s.trim()
Trim(s) == TrimEnd(TrimStart(s))

\* s.startsWith(p)
StartsWith(s, p) == Len(p) <= Len(s) /\ SubSeq(s, 1, Len(p)) = p

\* the 1-based positions at which sub occurs in s
Occurrences(s, sub) ==
  {i \in 1..(Len(s) - Len(sub) + 1) : SubSeq(s, i, i + Len(sub) - 1) = sub}

\* s.includes(sub)
Includes(s, sub) == Occurrences(s, sub) # {}

Min(S) == CHOOSE m \in S : \A n \in S : m <= n

\* s.replace(pat, rep) with a string pattern: the first occurrence only
Replace(s, pat, rep) ==
  IF ~Includes(s, pat) THEN s
  ELSE LET i == Min(Occurrences(s, pat))
       IN SubSeq(s, 1, i - 1) \o rep \o SubSeq(s, i + Len(pat), Len(s))

\* s.split(/[\.\[\]]/).length: one more than the number of delimiters
SplitLength(s) == Cardinality({i \in 1..Len(s) : s[i] \in {".", "[", "]"}}) + 1

\* s.split('.').pop(): the text after the last '.', the whole of s without one
LastSegment(s) ==
  LET dots == {i \in 1..Len(s) : s[i] = "."}
  IN IF dots = {} THEN s
     ELSE SubSeq(s, (CHOOSE i \in dots : \A j \in dots : j <= i) + 1, Len(s))

RECURSIVE Flatten(_)
\* the concatenation of a sequence of sequences
Flatten(ss) == IF ss = <<>> THEN <<>> ELSE Head(ss) \o Flatten(Tail(ss))

\* ------------------------------------------------------------------------
\* Decoded JSON values (and undefined, which a caller of jsonToTree may pass)
\*   t     : "null", "undefined", "boolean", "number", "string", "array",
\*           "object"
\*   s     : String(value) of a boolean, number or string
\*   keys  : the keys of an object in insertion order
\*   items : the elements of an array, or the values of keys
\* ------------------------------------------------------------------------

JNull == [t |-> "null", s |-> <<>>, keys |-> <<>>, items |-> <<>>]

JUndefined == [t |-> "undefined", s |-> <<>>, keys |-> <<>>, items |-> <<>>]

JNum(s) == [t |-> "number", s |-> s, keys |-> <<>>, items |-> <<>>]

JStr(s) == [t |-> "string", s |-> s, keys |-> <<>>, items |-> <<>>]

JBool(s) == [t |-> "boolean", s |-> s, keys |-> <<>>, items |-> <<>>]

JArr(items) == [t |-> "array", s |-> <<>>, keys |-> <<>>, items |-> items]

JObj(keys, items) == [t |-> "object", s |-> <<>>, keys |-> keys, items |-> items]

\* an integer index key: the canonical decimal form of an integer
IsArrayIndex(key) ==
  /\ key # <<>>
  /\ \A i \in 1..Len(key) : key[i] \in DigitSet
  /\ (Len(key) > 1 => key[1] # "0")

\* Object.keys(obj): the integer index keys in ascending numeric order, then
\* the other keys in insertion order; the positions in obj.keys, in that order
KeyOrder(obj) ==
  LET n    == Len(obj.keys)
      idx  == {i \in 1..n : IsArrayIndex(obj.keys[i])}
      Before(i, j) ==
        IF i \in idx /\ j \in idx
        THEN StrToNat(obj.keys[i]) < StrToNat(obj.keys[j])
        ELSE IF i \in idx \/ j \in idx THEN i \in idx
        ELSE i < j
  IN [r \in 1..n |->
        CHOOSE i \in 1..n : Cardinality({j \in 1..n : Before(j, i)}) = r - 1]

ObjectKeys(obj) == [r \in 1..Len(obj.keys) |-> obj.keys[KeyOrder(obj)[r]]]

\* obj[key] for the key at rank r of Object.keys(obj)
ObjectGet(obj, r) == obj.items[KeyOrder(obj)[r]]

\* ------------------------------------------------------------------------
\* jsonToTree
\* ------------------------------------------------------------------------

ROOT == <<"$">>

\* the label prefix: 'root' at the root, else the last '.' segment of the
\* path, or the path itself when that segment is empty
LabelName(parentPath) ==
  IF parentPath = ROOT THEN <<"r", "o", "o", "t">>
  ELSE IF LastSegment(parentPath) # <<>> THEN LastSegment(parentPath)
  ELSE parentPath

TreeNode(path, label, value, type, children) ==
  [id |-> path, path |-> path, label |-> label, value |-> value,
   type |-> type, children |-> children]

RECURSIVE jsonToTree(_, _)
jsonToTree(data, parentPath) ==
  IF data.t \in {"null", "undefined"} THEN
    <<TreeNode(parentPath,
               LabelName(parentPath) \o <<":", " ", "n", "u", "l", "l">>,
               JNull, "primitive", <<>>)>>
  ELSE IF data.t \notin {"array", "object"} THEN
    <<TreeNode(parentPath, LabelName(parentPath) \o <<":", " ">> \o data.s,
               data, "primitive", <<>>)>>
  ELSE IF data.t = "array" THEN
    <<TreeNode(parentPath,
               IF parentPath = ROOT
               THEN <<"r", "o", "o", "t", ":", " ", "[", "A", "r", "r", "a", "y", "]">>
               ELSE LabelName(parentPath)
                    \o <<":", " ", "[", "A", "r", "r", "a", "y", "(">>
                    \o NatToStr(Len(data.items)) \o <<")", "]">>,
               data, "array",
               Flatten([index \in 1..Len(data.items) |->
                  jsonToTree(data.items[index],
                             parentPath \o <<"[">> \o NatToStr(index - 1) \o <<"]">>)]))>>
  ELSE
    <<TreeNode(parentPath,
               LabelName(parentPath)
                 \o <<":", " ", "{", "O", "b", "j", "e", "c", "t", "}">>,
               data, "object",
               Flatten([r \in 1..Len(data.keys) |->
                  jsonToTree(ObjectGet(data, r),
                             IF parentPath = ROOT
                             THEN <<"$", ".">> \o ObjectKeys(data)[r]
                             ELSE parentPath \o <<".">> \o ObjectKeys(data)[r])]))>>

\* ------------------------------------------------------------------------
\* treeToFlow
\* ------------------------------------------------------------------------

getNodeColor(type) ==
  CASE type = "object" -> "#6366f1"
    [] type = "array" -> "#22c55e"
    [] type = "primitive" -> "#f59e0b"
    [] OTHER -> "#6b7280"

getBorderColor(type) ==
  CASE type = "object" -> "#4f46e5"
    [] type = "array" -> "#16a34a"
    [] type = "primitive" -> "#d97706"
    [] OTHER -> "#4b5563"

startXDefault == 400

startYDefault == 50

verticalGap == 320

levelAdvance == 280

horizontalSpacing == 320

minSpacing == 360

halfSpacing == 160

Max(a, b) == IF a >= b THEN a ELSE b

\* the render-ready node built for one queue item
FlowNode(treeNode, x, y) ==
  [id |-> treeNode.id,
   type |-> "jsonNode",
   position |-> [x |-> x, y |-> y],
   data |-> [label |-> treeNode.label, path |-> treeNode.path,
             value |-> treeNode.value, nodeType |-> treeNode.type],
   style |-> [backgroundColor |-> getNodeColor(treeNode.type),
              color |-> "#fff", border |-> "2px solid",
              borderColor |-> getBorderColor(treeNode.type),
              borderRadius |-> "8px", padding |-> "10px",
              fontSize |-> "14px", fontWeight |-> "500",
              minWidth |-> "150px", textAlign |-> "center"]]

\* the edge from parentNode to treeNode; its id is "<parentId>-<childId>"
FlowEdge(parentNode, treeNode) ==
  [id |-> parentNode.id \o <<"-">> \o treeNode.id,
   source |-> parentNode.id,
   target |-> treeNode.id,
   type |-> "smoothstep",
   animated |-> TRUE,
   style |-> [stroke |-> "#888", strokeWidth |-> 2]]

\* levelYPositions[level] || fallback: an absent or zero entry is falsy
LevelYOr(levelYPositions, level, fallback) ==
  IF level \in DOMAIN levelYPositions /\ levelYPositions[level] # 0
  THEN levelYPositions[level] ELSE fallback

\* levelYPositions[level] = value
LevelYSet(levelYPositions, level, value) ==
  [l \in DOMAIN levelYPositions \cup {level} |->
     IF l = level THEN value ELSE levelYPositions[l]]

\* the children but the last
ChildItemsFromLeftEdge(treeNode, flowNode, x, childY) ==
  LET childCount  == Len(treeNode.children)
      spacing     == Max(minSpacing, childCount * horizontalSpacing)
      startChildX == x - (spacing \div 2)
  IN [index \in 1..childCount |->
        [treeNode |-> treeNode.children[index],
         parentNode |-> <<flowNode>>,
         x |-> startChildX + ((index - 1) * horizontalSpacing),
         y |-> childY]]

ChildItemsButLast(treeNode, flowNode, x, childY) ==
  LET childCount  == Len(treeNode.children)
      spacing     == Max(minSpacing, childCount * horizontalSpacing)
      startChildX == x - (spacing \div 2) + halfSpacing
  IN [index \in 1..(childCount - 1) |->
        [treeNode |-> treeNode.children[index],
         parentNode |-> <<flowNode>>,
         x |-> startChildX + ((index - 1) * horizontalSpacing),
         y |-> childY]]

\* the queue items pushed for the children of the node placed at (x, childY's
\* parent); parentNode is <<>> for null, <<flowNode>> otherwise
ChildItems(treeNode, flowNode, x, childY) ==
  LET childCount  == Len(treeNode.children)
      spacing     == Max(minSpacing, childCount * horizontalSpacing)
      startChildX == x - (spacing \div 2) + halfSpacing
  IN [index \in 1..childCount |->
        [treeNode |-> treeNode.children[index],
         parentNode |-> <<flowNode>>,
         x |-> startChildX + ((index - 1) * horizontalSpacing),
         y |-> childY]]

RECURSIVE FlowLoopDepthFirst(_, _, _, _)
FlowLoopDepthFirst(queue, nodes, edges, levelYPositions) ==
  IF queue = <<>> THEN [nodes |-> nodes, edges |-> edges]
  ELSE
    LET item     == Head(queue)
        treeNode == item.treeNode
        level    == SplitLength(treeNode.path) - 1
        flowNode == FlowNode(treeNode, item.x, item.y)
        nodes2   == Append(nodes, flowNode)
        edges2   == IF item.parentNode # <<>>
                    THEN Append(edges, FlowEdge(item.parentNode[1], treeNode))
                    ELSE edges
        childY   == LevelYOr(levelYPositions, level + 1, item.y + verticalGap)
    IN IF Len(treeNode.children) > 0
       THEN FlowLoopDepthFirst(
              ChildItems(treeNode, flowNode, item.x, childY) \o Tail(queue),
              nodes2, edges2,
              LevelYSet(levelYPositions, level + 1, childY + levelAdvance))
       ELSE FlowLoopDepthFirst(Tail(queue), nodes2, edges2, levelYPositions)

RECURSIVE FlowLoop(_, _, _, _)
\* the while loop over the work queue
FlowLoop(queue, nodes, edges, levelYPositions) ==
  IF queue = <<>> THEN [nodes |-> nodes, edges |-> edges]
  ELSE
    LET item     == Head(queue)
        treeNode == item.treeNode
        level    == SplitLength(treeNode.path) - 1
        flowNode == FlowNode(treeNode, item.x, item.y)
        nodes2   == Append(nodes, flowNode)
        edges2   == IF item.parentNode # <<>>
                    THEN Append(edges, FlowEdge(item.parentNode[1], treeNode))
                    ELSE edges
        childY   == LevelYOr(levelYPositions, level + 1, item.y + verticalGap)
    IN IF Len(treeNode.children) > 0
       THEN FlowLoop(Tail(queue) \o ChildItems(treeNode, flowNode, item.x, childY),
                     nodes2, edges2,
                     LevelYSet(levelYPositions, level + 1, childY + levelAdvance))
       ELSE FlowLoop(Tail(queue), nodes2, edges2, levelYPositions)

treeToFlow(treeNodes, startX, startY) ==
  IF Len(treeNodes) = 0 THEN [nodes |-> <<>>, edges |-> <<>>]
  ELSE FlowLoop(<<[treeNode |-> treeNodes[1], parentNode |-> <<>>,
                   x |-> startX, y |-> startY]>>,
                <<>>, <<>>, (0 :> startY))

\* ------------------------------------------------------------------------
\* searchNodes
\* ------------------------------------------------------------------------

\* the prefix rule applied to the query as typed
searchPatternUntrimmed(searchPath) ==
  IF StartsWith(searchPath, <<"$">>) THEN searchPath
  ELSE <<"$", ".">> \o searchPath

\* the query after trim and the '$.' prefix rule
searchPatternOf(searchPath) ==
  LET normalizedSearch == Trim(searchPath)
  IN IF StartsWith(normalizedSearch, <<"$">>) THEN normalizedSearch
     ELSE <<"$", ".">> \o normalizedSearch

\* the first branch: the node path equals the pattern
exactMatch(nodePath, searchPattern) == nodePath = searchPattern

\* containment of the pattern in the node path only
containmentForward(nodePath, searchPattern) ==
  \/ Includes(nodePath, Replace(searchPattern, <<"$", ".">>, <<>>))
  \/ nodePath = searchPattern

\* containment of the node path in the pattern only
containmentOneWay(nodePath, searchPattern) ==
  \/ nodePath = searchPattern
  \/ Includes(searchPattern, nodePath)

\* the else-if branch: containment either way
containmentMatch(nodePath, searchPattern) ==
  \/ Includes(nodePath, Replace(searchPattern, <<"$", ".">>, <<>>))
  \/ nodePath = searchPattern
  \/ Includes(searchPattern, nodePath)

\* both branches taken independently of each other
matchesOfNodeBothBranches(node, searchPattern) ==
  (IF exactMatch(node.data.path, searchPattern) THEN <<node.id>> ELSE <<>>)
  \o (IF containmentMatch(node.data.path, searchPattern) THEN <<node.id>>
      ELSE <<>>)

\* the ids one node pushes: one in the first branch, else one in the second
matchesOfNode(node, searchPattern) ==
  IF exactMatch(node.data.path, searchPattern) THEN <<node.id>>
  ELSE IF containmentMatch(node.data.path, searchPattern) THEN <<node.id>>
  ELSE <<>>

RECURSIVE matchLoop(_, _)
\* nodes.forEach, in input order
matchLoop(nodes, searchPattern) ==
  IF nodes = <<>> THEN <<>>
  ELSE matchesOfNode(Head(nodes), searchPattern)
       \o matchLoop(Tail(nodes), searchPattern)

\* the early return taken for the empty string only
searchNodesUntrimmed(nodeList, searchPath) ==
  IF searchPath = <<>> THEN <<>>
  ELSE matchLoop(nodeList, searchPatternOf(searchPath))

searchNodes(nodeList, searchPath) ==
  IF Trim(searchPath) = <<>> THEN <<>>
  ELSE matchLoop(nodeList, searchPatternOf(searchPath))

\* ------------------------------------------------------------------------
\* JSON.parse, on texts without escape sequences and exponents
\*   a result is [ok, value, pos, message]: ok and the value read up to
\*   (excluding) pos, or a SyntaxError with its message
\* ------------------------------------------------------------------------

ParseOk(value, pos) == [ok |-> TRUE, value |-> value, pos |-> pos, message |-> <<>>]

ParseFail(pos) ==
  [ok |-> FALSE, value |-> JNull, pos |-> pos,
   message |-> <<"Unexpected token in JSON at position ">> \o NatToStr(pos - 1)]

ParseEnd ==
  [ok |-> FALSE, value |-> JNull, pos |-> 0,
   message |-> <<"Unexpected end of JSON input">>]

RECURSIVE SkipWs(_, _)
\* the first position from i on that holds no white space
SkipWs(text, i) ==
  IF i <= Len(text) /\ text[i] \in WhiteSpace THEN SkipWs(text, i + 1) ELSE i

RECURSIVE SkipDigits(_, _)
SkipDigits(text, i) ==
  IF i <= Len(text) /\ text[i] \in DigitSet THEN SkipDigits(text, i + 1) ELSE i

RECURSIVE SkipChars(_, _)
\* the position of the quote closing the string whose content starts at i
SkipChars(text, i) ==
  IF i <= Len(text) /\ text[i] \notin {"\"", "\\"} THEN SkipChars(text, i + 1) ELSE i

\* a literal word (null, true, false) at position i
ParseWord(text, i, word, value) ==
  IF i + Len(word) - 1 <= Len(text) /\ SubSeq(text, i, i + Len(word) - 1) = word
  THEN ParseOk(value, i + Len(word))
  ELSE IF i + Len(word) - 1 > Len(text) /\ SubSeq(text, i, Len(text)) = SubSeq(word, 1, Len(text) - i + 1)
  THEN ParseEnd
  ELSE ParseFail(i)

\* a number -?(0|[1-9][0-9]*)(.[0-9]+)? at position i
ParseNumber(text, i) ==
  LET d    == IF text[i] = "-" THEN i + 1 ELSE i
      e    == IF d <= Len(text) /\ text[d] = "0" THEN d + 1 ELSE SkipDigits(text, d)
      frac == e + 1 <= Len(text) /\ text[e] = "." /\ text[e + 1] \in DigitSet
      f    == IF frac THEN SkipDigits(text, e + 1) ELSE e
  IN IF e = d THEN (IF d > Len(text) THEN ParseEnd ELSE ParseFail(d))
     ELSE IF e <= Len(text) /\ text[e] = "." /\ ~frac
     THEN (IF e = Len(text) THEN ParseEnd ELSE ParseFail(e + 1))
     ELSE ParseOk(JNum(SubSeq(text, i, f - 1)), f)

\* a string "..." at position i
ParseString(text, i) ==
  LET j == SkipChars(text, i + 1)
  IN IF j > Len(text) THEN ParseEnd
     ELSE IF text[j] = "\"" THEN ParseOk(JStr(SubSeq(text, i + 1, j - 1)), j + 1)
     ELSE ParseFail(j)

\* obj[key] = value: a repeated key keeps its first position
ObjectPut(obj, key, value) ==
  IF \E k \in 1..Len(obj.keys) : obj.keys[k] = key
  THEN JObj(obj.keys,
            [k \in 1..Len(obj.keys) |->
               IF obj.keys[k] = key THEN value ELSE obj.items[k]])
  ELSE JObj(Append(obj.keys, key), Append(obj.items, value))

RECURSIVE ParseValue(_, _), ParseElements(_, _, _), ParseMembers(_, _, _)

\* a value at the first position from i on that holds no white space
ParseValue(text, i) ==
  LET j == SkipWs(text, i)
  IN IF j > Len(text) THEN ParseEnd
     ELSE IF text[j] = "n" THEN ParseWord(text, j, <<"n", "u", "l", "l">>, JNull)
     ELSE IF text[j] = "t"
       THEN ParseWord(text, j, <<"t", "r", "u", "e">>, JBool(<<"t", "r", "u", "e">>))
     ELSE IF text[j] = "f"
       THEN ParseWord(text, j, <<"f", "a", "l", "s", "e">>,
                      JBool(<<"f", "a", "l", "s", "e">>))
     ELSE IF text[j] = "-" \/ text[j] \in DigitSet THEN ParseNumber(text, j)
     ELSE IF text[j] = "\"" THEN ParseString(text, j)
     ELSE IF text[j] = "[" THEN
       LET k == SkipWs(text, j + 1)
       IN IF k > Len(text) THEN ParseEnd
          ELSE IF text[k] = "]" THEN ParseOk(JArr(<<>>), k + 1)
          ELSE ParseElements(text, k, <<>>)
     ELSE IF text[j] = "{" THEN
       LET k == SkipWs(text, j + 1)
       IN IF k > Len(text) THEN ParseEnd
          ELSE IF text[k] = "}" THEN ParseOk(JObj(<<>>, <<>>), k + 1)
          ELSE ParseMembers(text, k, JObj(<<>>, <<>>))
     ELSE ParseFail(j)

\* the elements of an array from position i on, after those in items
ParseElements(text, i, items) ==
  LET r == ParseValue(text, i)
      k == SkipWs(text, r.pos)
  IN IF ~r.ok THEN r
     ELSE IF k > Len(text) THEN ParseEnd
     ELSE IF text[k] = "," THEN ParseElements(text, k + 1, Append(items, r.value))
     ELSE IF text[k] = "]" THEN ParseOk(JArr(Append(items, r.value)), k + 1)
     ELSE ParseFail(k)

\* the members of an object from position i on, after those in obj
ParseMembers(text, i, obj) ==
  LET j == SkipWs(text, i)
      key == IF j <= Len(text) /\ text[j] = "\"" THEN ParseString(text, j)
             ELSE IF j > Len(text) THEN ParseEnd ELSE ParseFail(j)
      c == SkipWs(text, key.pos)
      r == ParseValue(text, c + 1)
      k == SkipWs(text, r.pos)
  IN IF ~key.ok THEN key
     ELSE IF c > Len(text) THEN ParseEnd
     ELSE IF text[c] # ":" THEN ParseFail(c)
     ELSE IF ~r.ok THEN r
     ELSE IF k > Len(text) THEN ParseEnd
     ELSE IF text[k] = ","
       THEN ParseMembers(text, k + 1, ObjectPut(obj, key.value.s, r.value))
     ELSE IF text[k] = "}"
       THEN ParseOk(ObjectPut(obj, key.value.s, r.value), k + 1)
     ELSE ParseFail(k)

\* JSON.parse(text): one value, with nothing but white space after it
JSONParse(text) ==
  LET r == ParseValue(text, 1)
      k == SkipWs(text, r.pos)
  IN IF ~r.ok THEN r
     ELSE IF k <= Len(text) THEN ParseFail(k)
     ELSE r

\* ------------------------------------------------------------------------
\* The inputs
\* ------------------------------------------------------------------------

\* JSON.stringify(SAMPLE_JSON, null, 2), one line of the text per line
SAMPLE_JSON_TEXT ==
  Flatten(<<
    <<"{", "\n">>,
    <<" ", " ", "\"", "u", "s", "e", "r", "\"", ":", " ", "{", "\n">>,
    <<" ", " ", " ", " ", "\"", "n", "a", "m", "e", "\"", ":", " ", "\"", "J", "o", "h", "n", " ", "D", "o", "e", "\"", ",", "\n">>,
    <<" ", " ", " ", " ", "\"", "a", "g", "e", "\"", ":", " ", "3", "0", ",", "\n">>,
    <<" ", " ", " ", " ", "\"", "e", "m", "a", "i", "l", "\"", ":", " ", "\"", "j", "o", "h", "n", "@", "e", "x", "a", "m", "p", "l", "e", ".", "c", "o", "m", "\"", ",", "\n">>,
    <<" ", " ", " ", " ", "\"", "a", "d", "d", "r", "e", "s", "s", "\"", ":", " ", "{", "\n">>,
    <<" ", " ", " ", " ", " ", " ", "\"", "s", "t", "r", "e", "e", "t", "\"", ":", " ", "\"", "1", "2", "3", " ", "M", "a", "i", "n", " ", "S", "t", "\"", ",", "\n">>,
    <<" ", " ", " ", " ", " ", " ", "\"", "c", "i", "t", "y", "\"", ":", " ", "\"", "N", "e", "w", " ", "Y", "o", "r", "k", "\"", ",", "\n">>,
    <<" ", " ", " ", " ", " ", " ", "\"", "c", "o", "u", "n", "t", "r", "y", "\"", ":", " ", "\"", "U", "S", "A", "\"", "\n">>,
    <<" ", " ", " ", " ", "}", ",", "\n">>,
    <<" ", " ", " ", " ", "\"", "h", "o", "b", "b", "i", "e", "s", "\"", ":", " ", "[", "\n">>,
    <<" ", " ", " ", " ", " ", " ", "\"", "r", "e", "a", "d", "i", "n", "g", "\"", ",", "\n">>,
    <<" ", " ", " ", " ", " ", " ", "\"", "c", "o", "d", "i", "n", "g", "\"", ",", "\n">>,
    <<" ", " ", " ", " ", " ", " ", "\"", "t", "r", "a", "v", "e", "l", "i", "n", "g", "\"", "\n">>,
    <<" ", " ", " ", " ", "]", "\n">>,
    <<" ", " ", "}", ",", "\n">>,
    <<" ", " ", "\"", "i", "t", "e", "m", "s", "\"", ":", " ", "[", "\n">>,
    <<" ", " ", " ", " ", "{", "\n">>,
    <<" ", " ", " ", " ", " ", " ", "\"", "i", "d", "\"", ":", " ", "1", ",", "\n">>,
    <<" ", " ", " ", " ", " ", " ", "\"", "n", "a", "m", "e", "\"", ":", " ", "\"", "I", "t", "e", "m", " ", "1", "\"", ",", "\n">>,
    <<" ", " ", " ", " ", " ", " ", "\"", "p", "r", "i", "c", "e", "\"", ":", " ", "2", "9", ".", "9", "9", "\n">>,
    <<" ", " ", " ", " ", "}", ",", "\n">>,
    <<" ", " ", " ", " ", "{", "\n">>,
    <<" ", " ", " ", " ", " ", " ", "\"", "i", "d", "\"", ":", " ", "2", ",", "\n">>,
    <<" ", " ", " ", " ", " ", " ", "\"", "n", "a", "m", "e", "\"", ":", " ", "\"", "I", "t", "e", "m", " ", "2", "\"", ",", "\n">>,
    <<" ", " ", " ", " ", " ", " ", "\"", "p", "r", "i", "c", "e", "\"", ":", " ", "3", "9", ".", "9", "9", "\n">>,
    <<" ", " ", " ", " ", "}", "\n">>,
    <<" ", " ", "]", ",", "\n">>,
    <<" ", " ", "\"", "s", "e", "t", "t", "i", "n", "g", "s", "\"", ":", " ", "{", "\n">>,
    <<" ", " ", " ", " ", "\"", "t", "h", "e", "m", "e", "\"", ":", " ", "\"", "d", "a", "r", "k", "\"", ",", "\n">>,
    <<" ", " ", " ", " ", "\"", "n", "o", "t", "i", "f", "i", "c", "a", "t", "i", "o", "n", "s", "\"", ":", " ", "t", "r", "u", "e", "\n">>,
    <<" ", " ", "}", "\n">>,
    <<"}">>
  >>)

\* the document {"a":1,"b":[2,3]}
AB_TEXT ==
  <<"{", "\"", "a", "\"", ":", "1", ",", "\"", "b", "\"", ":", "[", "2", ",", "3", "]", "}">>

\* the texts the user may put in the input box
InputTexts ==
  { SAMPLE_JSON_TEXT,
    AB_TEXT,
    <<" ", "\n">>,
    <<"{", "\"", "a", "\"", ":", "1", ",">>,
    <<" ", "[", "n", "u", "l", "l", "]", " ">> }

\* the texts the user may type in the search box
SearchTexts ==
  { <<>>,
    <<" ">>,
    <<"$", ".", "a">>,
    <<" ", "b">> }

\* the user clicks one of the first MaxClick nodes of the diagram
MaxClick == 1

\* keys of the generated objects
GenKeys == { <<"a">>, <<>>, <<".">>, <<"0">>, <<"$">> }

\* values of one location
Leaves == { JNull, JNum(<<"1">>), JArr(<<>>), JObj(<<>>, <<>>) }

\* the sequences of k distinct keys
KeySeqs(k) == {ks \in [1..k -> GenKeys] : \A i, j \in 1..k : ks[i] = ks[j] => i = j}

RECURSIVE ValuesOfSize(_), ForestsOfSize(_)

\* the JSON values with exactly n locations
ValuesOfSize(n) ==
  IF n = 1 THEN Leaves
  ELSE UNION { {JArr(f)} \cup {JObj(ks, f) : ks \in KeySeqs(Len(f))} :
               f \in ForestsOfSize(n - 1) }

\* the sequences of JSON values with m locations in all
ForestsOfSize(m) ==
  IF m = 0 THEN {<<>>}
  ELSE UNION { { <<v>> \o f : v \in ValuesOfSize(j), f \in ForestsOfSize(m - j) } :
               j \in 1..m }

\* the document {"a":1,"b":[2,3]}, decoded
AB_VALUE ==
  JObj(<< <<"a">>, <<"b">> >>,
       << JNum(<<"1">>), JArr(<< JNum(<<"2">>), JNum(<<"3">>) >>) >>)

\* values beyond the generated ones: undefined (alone and as an element),
\* other primitives, and documents whose keys hold path delimiters
\* {"a":[{"k":1}],"x":{"y":{"z":{"k":1}}}}: the paths $.a[0] and $.x.y.z
\* hold the same number of separators at different depths of the tree
NESTED_VALUE ==
  JObj(<< <<"a">>, <<"x">> >>,
       << JArr(<< JObj(<< <<"k">> >>, << JNum(<<"1">>) >>) >>),
          JObj(<< <<"y">> >>,
               << JObj(<< <<"z">> >>,
                       << JObj(<< <<"k">> >>, << JNum(<<"1">>) >>) >>) >>) >>)

ExtraValues ==
  { AB_VALUE,
    NESTED_VALUE,
    JUndefined,
    JArr(<< JUndefined, JStr(<<"x", " ">>) >>),
    JBool(<<"t", "r", "u", "e">>),
    JObj(<< <<".">>, <<>> >>, << JNum(<<"1">>), JObj(<< <<>> >>, << JNull >>) >>),
    JObj(<< <<"a", ".", "b">>, <<"a">> >>,
         << JNum(<<"1">>), JObj(<< <<"b">> >>, << JNum(<<"2">>) >>) >>),
    JObj(<< <<"a">>, <<"a", "[", "0", "]">> >>,
         << JArr(<< JNull >>), JNum(<<"1">>) >>),
    JObj(<< <<"b">>, <<"1", "0">>, <<"9">> >>, << JNull, JNull, JArr(<< JNull >>) >>),
    JArr(<< JObj(<< <<"$", ".", "a">> >>, << JArr(<< JNum(<<"1">>) >>) >>) >>),
    JObj(<< <<"$", "a", "$", ".", "b">> >>, << JNull >>),
    JObj(<< <<" ">> >>, << JArr(<< JNull >>) >>) }

\* the values jsonToTree is applied to
JsonValues == UNION {ValuesOfSize(n) : n \in 1..MaxNodes} \cup ExtraValues

\* the queries searchNodes is applied to, for the node list nodes: typed
\* texts, every node path, and every node path without its leading "$."
WithoutPrefix(path) ==
  IF StartsWith(path, <<"$", ".">>) THEN SubSeq(path, 3, Len(path)) ELSE path

QueriesFor(nodeList) ==
  SearchTexts
    \cup {nodeList[i].data.path : i \in 1..Len(nodeList)}
    \cup {WithoutPrefix(nodeList[i].data.path) : i \in 1..Len(nodeList)}

\* ------------------------------------------------------------------------
\* State
\*   The theme switch, the clipboard copy and the image export of App write
\*   none of the variables below except transient texts of searchMessage;
\*   they are left out.
\* ------------------------------------------------------------------------

VARIABLES
  \* the host component App
  jsonInput,        \* the text of the input box
  jsonError,        \* the error message shown under the input box
  nodes,            \* the positioned nodes given to the drawing surface
  edges,            \* the edges given to the drawing surface
  searchPath,       \* the text of the search box
  highlightedNodes, \* the set of ids of the last search
  clickedNode,      \* <<>> for null, else <<[path, value]>>
  searchMessage,    \* the message shown under the search box
  treeStructure,    \* the local of handleVisualize: the tree it built, <<>>
                    \* when jsonToTree was not called or another handler ran
  lastAction,       \* the handler that ran last: "generate", "search",
                    \* "clear", and "other" for the rest
  \* the three functions applied in sequence to one value
  pc,               \* "input", "built", "flattened", "searched"; "host" in App
  data,             \* the value given to jsonToTree
  treeNodes,        \* the result of jsonToTree
  flow,             \* the result of treeToFlow
  query,            \* the text given to searchNodes
  matchingNodeIds   \* the result of searchNodes

hostVars ==
  <<jsonInput, jsonError, nodes, edges, searchPath, highlightedNodes,
    clickedNode, searchMessage, treeStructure, lastAction>>

pureVars == <<pc, data, treeNodes, flow, query, matchingNodeIds>>

vars == <<hostVars, pureVars>>

\* a message is a sequence of pieces of text; <<>> is the empty string
NoMessage == <<>>

\* the set of the elements of a sequence
Range(seq) == {seq[i] : i \in 1..Len(seq)}

\* useState initial values
HostInit ==
  /\ jsonInput = SAMPLE_JSON_TEXT
  /\ jsonError = NoMessage
  /\ nodes = <<>>
  /\ edges = <<>>
  /\ searchPath = <<>>
  /\ highlightedNodes = {}
  /\ clickedNode = <<>>
  /\ searchMessage = NoMessage
  /\ treeStructure = <<>>
  /\ lastAction = "other"

PureIdle ==
  /\ data = JNull
  /\ treeNodes = <<>>
  /\ flow = [nodes |-> <<>>, edges |-> <<>>]
  /\ query = <<>>
  /\ matchingNodeIds = <<>>

\* ------------------------------------------------------------------------
\* The host component: one action per handler
\* ------------------------------------------------------------------------

\* onChange of the input box
setJsonInput(text) ==
  /\ pc = "host"
  /\ jsonInput' = text
  /\ treeStructure' = <<>>
  /\ lastAction' = "other"
  /\ UNCHANGED <<jsonError, nodes, edges, searchPath, highlightedNodes,
                 clickedNode, searchMessage>>
  /\ UNCHANGED pureVars

\* onChange of the search box
setSearchPath(text) ==
  /\ pc = "host"
  /\ searchPath' = text
  /\ treeStructure' = <<>>
  /\ lastAction' = "other"
  /\ UNCHANGED <<jsonInput, jsonError, nodes, edges, highlightedNodes,
                 clickedNode, searchMessage>>
  /\ UNCHANGED pureVars

\* handleVisualize without its two resets
visualizeResetsNothing == UNCHANGED <<highlightedNodes, searchMessage>>

\* setHighlightedNodes(new Set()) and setSearchMessage("") at the start of
\* handleVisualize
visualizeResets ==
  /\ highlightedNodes' = {}
  /\ searchMessage' = NoMessage

\* giving up with the message alone, the diagram left as it was
visualizeFailsKeepsDiagram(message) ==
  /\ jsonError' = message
  /\ UNCHANGED <<nodes, edges>>

\* the three places where handleVisualize gives up: the message, and an empty
\* diagram
visualizeFails(message) ==
  /\ jsonError' = message
  /\ nodes' = <<>>
  /\ edges' = <<>>

\* the "Generate Tree" button
handleVisualize ==
  /\ pc = "host"
  /\ lastAction' = "generate"
  /\ visualizeResets
  /\ IF Trim(jsonInput) = <<>> THEN
       /\ visualizeFails(<<"Please enter JSON data">>)
       /\ treeStructure' = <<>>
     ELSE
       LET parsedJson == JSONParse(jsonInput)
           built      == jsonToTree(parsedJson.value, ROOT)
           flowed     == treeToFlow(built, startXDefault, startYDefault)
       IN IF ~parsedJson.ok THEN
            \* catch (error): JSON.parse threw a SyntaxError
            /\ visualizeFails(parsedJson.message)
            /\ treeStructure' = <<>>
          ELSE
            /\ treeStructure' = built
            /\ IF Len(built) = 0 THEN
                 visualizeFails(<<"Unable to parse JSON structure">>)
               ELSE
                 /\ jsonError' = NoMessage
                 /\ nodes' = flowed.nodes
                 /\ edges' = flowed.edges
  /\ UNCHANGED <<jsonInput, searchPath, clickedNode>>
  /\ UNCHANGED pureVars

\* { ...node, data: { ...node.data, isHighlighted: flag } }
withHighlight(node, flag) ==
  [node EXCEPT !.data =
     [f \in DOMAIN node.data \cup {"isHighlighted"} |->
        IF f = "isHighlighted" THEN flag ELSE node.data[f]]]

\* filter in place of map: only the matching nodes are kept
highlightMatchesOnly(prevNodes, ids) ==
  SelectSeq([i \in 1..Len(prevNodes) |->
               [prevNodes[i] EXCEPT !.data =
                  [f \in DOMAIN prevNodes[i].data \cup {"isHighlighted"} |->
                     IF f = "isHighlighted" THEN TRUE ELSE prevNodes[i].data[f]]]],
            LAMBDA n : n.id \in {ids[k] : k \in 1..Len(ids)})

\* prevNodes.map(node => withHighlight(node, ids.includes(node.id)))
highlightAll(prevNodes, ids) ==
  [i \in 1..Len(prevNodes) |->
     withHighlight(prevNodes[i], prevNodes[i].id \in Range(ids))]

\* the "Search" button, or Enter in the search box
handleSearch ==
  /\ pc = "host"
  /\ lastAction' = "search"
  /\ treeStructure' = <<>>
  /\ IF Trim(searchPath) = <<>> THEN
       /\ highlightedNodes' = {}
       /\ searchMessage' = NoMessage
       /\ nodes' = highlightAll(nodes, <<>>)
     ELSE
       LET ids == searchNodes(nodes, searchPath)
       IN IF Len(ids) > 0 THEN
            /\ highlightedNodes' = Range(ids)
            /\ searchMessage' = NatToStr(Len(ids)) \o <<" match(es) found">>
            /\ nodes' = highlightAll(nodes, ids)
          ELSE
            /\ highlightedNodes' = {}
            /\ searchMessage' = <<"No match found">>
            /\ nodes' = highlightAll(nodes, <<>>)
  /\ UNCHANGED <<jsonInput, jsonError, edges, searchPath, clickedNode>>
  /\ UNCHANGED pureVars

\* the "Clear" button
handleClearInput ==
  /\ pc = "host"
  /\ jsonInput' = <<>>
  /\ jsonError' = NoMessage
  /\ nodes' = <<>>
  /\ edges' = <<>>
  /\ searchPath' = <<>>
  /\ highlightedNodes' = {}
  /\ searchMessage' = NoMessage
  /\ clickedNode' = <<>>
  /\ treeStructure' = <<>>
  /\ lastAction' = "clear"
  /\ UNCHANGED pureVars

RECURSIVE JSString(_)
\* String(value)
JSString(value) ==
  CASE value.t = "null" -> <<"n", "u", "l", "l">>
    [] value.t = "undefined" -> <<"u", "n", "d", "e", "f", "i", "n", "e", "d">>
    [] value.t = "object" ->
         <<"[", "o", "b", "j", "e", "c", "t", " ", "O", "b", "j", "e", "c", "t", "]">>
    [] value.t = "array" ->
         Flatten([i \in 1..Len(value.items) |->
           (IF i > 1 THEN <<",">> ELSE <<>>)
           \o (IF value.items[i].t \in {"null", "undefined"} THEN <<>>
               ELSE JSString(value.items[i]))])
    [] OTHER -> value.s

\* a click on the node at position i of the diagram
handleNodeClick(i) ==
  /\ pc = "host"
  /\ i <= Len(nodes)
  /\ LET node  == nodes[i]
         path  == node.data.path
         value == IF node.data.value.t \in {"null", "undefined"}
                  THEN <<"N", "/", "A">>
                  ELSE JSString(node.data.value)
     IN /\ clickedNode' = <<[path |-> path, value |-> value]>>
        /\ searchPath' = IF path # <<>> THEN path ELSE searchPath
  /\ treeStructure' = <<>>
  /\ lastAction' = "other"
  /\ UNCHANGED <<jsonInput, jsonError, nodes, edges, highlightedNodes,
                 searchMessage>>
  /\ UNCHANGED pureVars

\* a click on the empty part of the drawing surface, shown with a node
onPaneClick ==
  /\ pc = "host"
  /\ nodes # <<>>
  /\ clickedNode' = <<>>
  /\ treeStructure' = <<>>
  /\ lastAction' = "other"
  /\ UNCHANGED <<jsonInput, jsonError, nodes, edges, searchPath,
                 highlightedNodes, searchMessage>>
  /\ UNCHANGED pureVars

Init == HostInit /\ pc = "host" /\ PureIdle

Next ==
  \/ \E text \in InputTexts : setJsonInput(text)
  \/ \E text \in SearchTexts : setSearchPath(text)
  \/ handleVisualize
  \/ handleSearch
  \/ handleClearInput
  \/ \E i \in 1..MaxClick : handleNodeClick(i)
  \/ onPaneClick

\* the host component under any sequence of user actions
Spec == Init /\ [][Next]_vars

\* ------------------------------------------------------------------------
\* The three functions, applied to every value of JsonValues
\* ------------------------------------------------------------------------

PureInit ==
  /\ HostInit
  /\ pc = "input"
  /\ data \in JsonValues
  /\ treeNodes = <<>>
  /\ flow = [nodes |-> <<>>, edges |-> <<>>]
  /\ query = <<>>
  /\ matchingNodeIds = <<>>

Build ==
  /\ pc = "input"
  /\ treeNodes' = jsonToTree(data, ROOT)
  /\ pc' = "built"
  /\ UNCHANGED <<data, flow, query, matchingNodeIds>>
  /\ UNCHANGED hostVars

Layout ==
  /\ pc = "built"
  /\ flow' = treeToFlow(treeNodes, startXDefault, startYDefault)
  /\ pc' = "flattened"
  /\ UNCHANGED <<data, treeNodes, query, matchingNodeIds>>
  /\ UNCHANGED hostVars

Match(text) ==
  /\ pc = "flattened"
  /\ query' = text
  /\ matchingNodeIds' = searchNodes(flow.nodes, text)
  /\ pc' = "searched"
  /\ UNCHANGED <<data, treeNodes, flow>>
  /\ UNCHANGED hostVars

PureNext ==
  \/ Build
  \/ Layout
  \/ \E text \in QueriesFor(flow.nodes) : Match(text)

\* jsonToTree, treeToFlow and searchNodes as functions of their inputs
PureSpec == PureInit /\ [][PureNext]_vars

\* ------------------------------------------------------------------------
\* Properties
\* ------------------------------------------------------------------------

RECURSIVE AllTreeNodes(_)
\* the nodes of a sequence of trees, each before its children
AllTreeNodes(trees) ==
  IF trees = <<>> THEN <<>>
  ELSE <<Head(trees)>> \o AllTreeNodes(Head(trees).children)
       \o AllTreeNodes(Tail(trees))

\* what a tree node and the positioned node made from it have in common
TreeFacts(t) ==
  [id |-> t.id, path |-> t.path, label |-> t.label, value |-> t.value,
   type |-> t.type]

FlowFacts(n) ==
  [id |-> n.id, path |-> n.data.path, label |-> n.data.label,
   value |-> n.data.value, type |-> n.data.nodeType]

\* how often x occurs in the sequence seq
CountOf(seq, x) == Cardinality({i \in 1..Len(seq) : seq[i] = x})

PathOf(i) == flow.nodes[i].data.path

IdOf(i) == flow.nodes[i].id

Found == Range(matchingNodeIds)

PATH_A == <<"$", ".", "a">>

PATH_B == <<"$", ".", "b">>

PATH_B0 == <<"$", ".", "b", "[", "0", "]">>

PATH_B1 == <<"$", ".", "b", "[", "1", "]">>

\* C1: treeToFlow(jsonToTree(v)) outputs every node of the built tree exactly
\* once: as many positioned nodes as tree nodes, each tree node as often among
\* the positioned nodes as in the tree, and one edge fewer than nodes;
\* {"a":1,"b":[2,3]} gives 5 nodes and 4 edges, [] gives 1 node and 0 edges.
C1_EveryNodeOnce ==
  pc \in {"flattened", "searched"} =>
    LET all   == AllTreeNodes(treeNodes)
        facts == [i \in 1..Len(all) |-> TreeFacts(all[i])]
        shown == [i \in 1..Len(flow.nodes) |-> FlowFacts(flow.nodes[i])]
    IN /\ Len(flow.nodes) = Len(all)
       /\ \A i \in 1..Len(all) : CountOf(shown, facts[i]) = CountOf(facts, facts[i])
       /\ Len(flow.edges) = Len(flow.nodes) - 1
       /\ (data = AB_VALUE => Len(flow.nodes) = 5 /\ Len(flow.edges) = 4)
       /\ (data = JArr(<<>>) => Len(flow.nodes) = 1 /\ Len(flow.edges) = 0)

\* C1 witness: the document {"a":1,"b":[2,3]} has been laid out
C1_Witness ==
  pc = "flattened" /\ data = AB_VALUE /\ Len(flow.nodes) = 5 /\ Len(flow.edges) = 4

\* C2: every node built by jsonToTree has id = path, and no two nodes of the
\* tree (hence no two positioned nodes) share a path, whatever the keys.
C2_PathsUnique ==
  pc # "input" =>
    LET all == AllTreeNodes(treeNodes)
    IN /\ \A i \in 1..Len(all) : all[i].id = all[i].path
       /\ \A i, j \in 1..Len(all) : all[i].path = all[j].path => i = j
       /\ \A i, j \in 1..Len(flow.nodes) : PathOf(i) = PathOf(j) => i = j

\* C3: over the nodes of {"a":1,"b":[2,3]} the query "$.a" returns exactly
\* the sequence ["$.a"].
C3_ExactQueryOnlyA ==
  (pc = "searched" /\ data = AB_VALUE /\ query = PATH_A) =>
    matchingNodeIds = <<PATH_A>>

\* C4 as stated: a query that does not start with '$' is normalized to "$."
\* followed by its trimmed text, and every node whose path contains the
\* trimmed text is returned.
C4_Original ==
  (pc = "searched" /\ ~StartsWith(query, <<"$">>)) =>
    /\ searchPatternOf(query) = <<"$", ".">> \o Trim(query)
    /\ \A i \in 1..Len(flow.nodes) : Includes(PathOf(i), Trim(query)) => IdOf(i) \in Found

\* C4 amended: a query that is not blank and whose trimmed text does not start
\* with '$' is normalized to "$." followed by the trimmed text, and every node
\* whose path contains the trimmed text is returned; the query "b" over the
\* nodes of {"a":1,"b":[2,3]} returns $.b, $.b[0] and $.b[1] and not $.a.
C4_ContainmentQuery ==
  (pc = "searched" /\ Trim(query) # <<>> /\ ~StartsWith(Trim(query), <<"$">>)) =>
    /\ searchPatternOf(query) = <<"$", ".">> \o Trim(query)
    /\ \A i \in 1..Len(flow.nodes) : Includes(PathOf(i), Trim(query)) => IdOf(i) \in Found
    /\ (data = AB_VALUE /\ Trim(query) = <<"b">>) =>
         /\ {PATH_B, PATH_B0, PATH_B1} \subseteq Found
         /\ PATH_A \notin Found

\* C4 witness: the query " b" (trimmed to "b") has been matched against the
\* nodes of {"a":1,"b":[2,3]}
C4_Witness ==
  /\ pc = "searched" /\ data = AB_VALUE /\ query = <<" ", "b">>
  /\ PATH_B0 \in Found

\* the text "$." occurs in path at its start or not at all
PrefixOnlyAtStart(path) == Occurrences(path, <<"$", ".">>) \subseteq {1}

IsHighlighted(node) ==
  "isHighlighted" \in DOMAIN node.data /\ node.data.isHighlighted

\* the highlight flag of a node was written, and is false
HighlightOff(node) ==
  "isHighlighted" \in DOMAIN node.data /\ ~node.data.isHighlighted

\* C6: searchNodes with an empty or white-space-only query returns the empty
\* sequence for every node list; and in the host a search action with such a
\* query sets every node's highlight flag to false and clears the search
\* message.
C6_BlankQuery ==
  /\ \A text \in SearchTexts \cup {searchPath} :
       Trim(text) = <<>> => searchNodes(nodes, text) = <<>>
  /\ (lastAction = "search" /\ Trim(searchPath) = <<>>) =>
       /\ \A i \in 1..Len(nodes) : HighlightOff(nodes[i])
       /\ searchMessage = NoMessage
       /\ highlightedNodes = {}

\* C6 witness: a search with the query " " has run on a diagram
C6_Witness ==
  /\ lastAction = "search" /\ searchPath = <<" ">> /\ Len(nodes) = 5
  /\ \A i \in 1..Len(nodes) : HighlightOff(nodes[i])

RECURSIVE MirrorsInInsertionOrder(_, _)
\* the tree node mirrors the value, the children of an object in the
\* insertion order of its keys
MirrorsInInsertionOrder(node, value) ==
  /\ node.id = node.path
  /\ node.type = (IF value.t = "array" THEN "array"
                  ELSE IF value.t = "object" THEN "object" ELSE "primitive")
  /\ node.type = "primitive" =>
       /\ node.children = <<>>
       /\ node.value = (IF value.t \in {"null", "undefined"} THEN JNull ELSE value)
  /\ node.type = "array" =>
       /\ Len(node.children) = Len(value.items)
       /\ \A i \in 1..Len(value.items) :
            /\ node.children[i].path
                 = node.path \o <<"[">> \o NatToStr(i - 1) \o <<"]">>
            /\ MirrorsInInsertionOrder(node.children[i], value.items[i])
  /\ node.type = "object" =>
       /\ Len(node.children) = Len(value.keys)
       /\ \A i \in 1..Len(value.keys) :
            /\ node.children[i].path = node.path \o <<".">> \o value.keys[i]
            /\ MirrorsInInsertionOrder(node.children[i], value.items[i])

\* C7: jsonToTree(v) returns exactly one root node with path "$", and the
\* tree mirrors the shape of v: the kind of a node follows its value, a
\* primitive node has no children (null and undefined stored as null), an
\* array node has one child per element with path parentPath[i] in index
\* order, an object node one child per key with path parentPath.key in key
\* insertion order.
C7_TreeMirrorsValue ==
  pc # "input" =>
    /\ Len(treeNodes) = 1
    /\ treeNodes[1].path = ROOT
    /\ MirrorsInInsertionOrder(treeNodes[1], data)

RECURSIVE MirrorsInKeysOrder(_, _)
\* the tree node mirrors the value, the children of an object in the order
\* of Object.keys
MirrorsInKeysOrder(node, value) ==
  /\ node.id = node.path
  /\ node.type = (IF value.t = "array" THEN "array"
                  ELSE IF value.t = "object" THEN "object" ELSE "primitive")
  /\ node.type = "primitive" =>
       /\ node.children = <<>>
       /\ node.value = (IF value.t \in {"null", "undefined"} THEN JNull ELSE value)
  /\ node.type = "array" =>
       /\ Len(node.children) = Len(value.items)
       /\ \A i \in 1..Len(value.items) :
            /\ node.children[i].path
                 = node.path \o <<"[">> \o NatToStr(i - 1) \o <<"]">>
            /\ MirrorsInKeysOrder(node.children[i], value.items[i])
  /\ node.type = "object" =>
       /\ Len(node.children) = Len(value.keys)
       /\ \A r \in 1..Len(value.keys) :
            /\ node.children[r].path = node.path \o <<".">> \o ObjectKeys(value)[r]
            /\ MirrorsInKeysOrder(node.children[r], ObjectGet(value, r))

\* What the code does where C7_TreeMirrorsValue fails: the same shape, with
\* the children of an object in the order of Object.keys (integer index keys
\* first, ascending, then the other keys in insertion order).
TreeMirrorsValueInKeysOrder ==
  pc # "input" =>
    /\ Len(treeNodes) = 1
    /\ treeNodes[1].path = ROOT
    /\ MirrorsInKeysOrder(treeNodes[1], data)


\* C8: a generate action whose input text decodes leaves the node list and
\* the edge list equal to treeToFlow(jsonToTree(decode(input text))) at the
\* default origin, no node highlighted, and the error message and the search
\* message empty, whatever actions came before.
C8_GenerateRebuilds ==
  (lastAction = "generate" /\ Trim(jsonInput) # <<>> /\ JSONParse(jsonInput).ok) =>
    LET fresh == treeToFlow(jsonToTree(JSONParse(jsonInput).value, ROOT),
                            startXDefault, startYDefault)
    IN /\ nodes = fresh.nodes
       /\ edges = fresh.edges
       /\ \A i \in 1..Len(nodes) : ~IsHighlighted(nodes[i])
       /\ highlightedNodes = {}
       /\ jsonError = NoMessage
       /\ searchMessage = NoMessage

\* C8 witness: {"a":1,"b":[2,3]} has been generated while the search box
\* still holds a query of an earlier search
C8_Witness ==
  /\ lastAction = "generate" /\ jsonInput = AB_TEXT /\ Len(nodes) = 5
  /\ searchPath = PATH_A

\* C9: a search action changes neither the ids of the nodes nor their order,
\* position, path, value, kind, label or style, nor the edge list, nor the
\* input text, the error message, the query or the clicked node; afterwards a
\* node is highlighted iff its id is in searchNodes(nodes, query).
C9_SearchFrame ==
  [][lastAction' = "search" =>
       \E found \in {Range(searchNodes(nodes', searchPath'))} :
          /\ edges' = edges
          /\ jsonInput' = jsonInput
          /\ jsonError' = jsonError
          /\ searchPath' = searchPath
          /\ clickedNode' = clickedNode
          /\ Len(nodes') = Len(nodes)
          /\ \A i \in 1..Len(nodes) :
               /\ nodes'[i].id = nodes[i].id
               /\ nodes'[i].type = nodes[i].type
               /\ nodes'[i].position = nodes[i].position
               /\ nodes'[i].style = nodes[i].style
               /\ FlowFacts(nodes'[i]) = FlowFacts(nodes[i])
               /\ DOMAIN nodes'[i].data
                    = {"label", "path", "value", "nodeType", "isHighlighted"}
               /\ nodes'[i].data.isHighlighted = (nodes'[i].id \in found)
  ]_vars

\* C9 witness: a search has highlighted some nodes of a diagram and not others
C9_Witness ==
  /\ lastAction = "search"
  /\ \E i \in 1..Len(nodes) : IsHighlighted(nodes[i])
  /\ \E i \in 1..Len(nodes) : HighlightOff(nodes[i])

\* C10: a generate action on a text that is blank or does not decode sets a
\* non-empty error message and empties the node list and the edge list without
\* calling the tree builder; and in every reachable state a non-empty error
\* message implies that the node list and the edge list are empty.
C10_ErrorMeansEmpty ==
  /\ (lastAction = "generate" /\ (Trim(jsonInput) = <<>> \/ ~JSONParse(jsonInput).ok)) =>
       /\ jsonError # NoMessage
       /\ nodes = <<>>
       /\ edges = <<>>
       /\ treeStructure = <<>>
  /\ jsonError # NoMessage => (nodes = <<>> /\ edges = <<>>)

\* C10 witness: a generate action on a malformed text has failed
C10_Witness ==
  /\ lastAction = "generate"
  /\ jsonInput = <<"{", "\"", "a", "\"", ":", "1", ",">>
  /\ jsonError = <<"Unexpected end of JSON input">>

\* C10 witness, blank text: a generate action on a blank text has failed
C10_WitnessBlank ==
  /\ lastAction = "generate"
  /\ jsonInput = <<" ", "\n">>
  /\ jsonError = <<"Please enter JSON data">>

\* ---------------------------------------------------------------------------
\* Layout of the diagram: the tree in level order, as a reference listing.
\* Entry k holds a tree node, the index of its parent in the listing (0 for
\* the root), its rank among its siblings (0-based) and its depth.
RECURSIVE LevelOrderLoop(_, _)
LevelOrderLoop(pending, listed) ==
  IF pending = <<>> THEN listed
  ELSE LET item == Head(pending)
           k == Len(listed) + 1
           below == [i \in 1..Len(item.node.children) |->
                       [node |-> item.node.children[i], parent |-> k,
                        rank |-> i - 1, depth |-> item.depth + 1]]
       IN LevelOrderLoop(Tail(pending) \o below, Append(listed, item))

LevelOrder(trees) ==
  LevelOrderLoop([i \in 1..Len(trees) |->
                    [node |-> trees[i], parent |-> 0, rank |-> 0, depth |-> 0]],
                 <<>>)

Laid == pc \in {"flattened", "searched"}

XOf(i) == flow.nodes[i].position.x

YOf(i) == flow.nodes[i].position.y

\* the level treeToFlow derives from the path of the i-th flow node
LevelOf(i) == SplitLength(PathOf(i)) - 1

\* the y recorded for the level of the children of the p-th listed node at
\* the moment that node is laid out: the y of the children of the latest
\* earlier parent of the same level plus the advance, 0 when none is recorded
RecordedBefore(b, p) ==
  LET earlier == {j \in 1..(p - 1) :
                    Len(b[j].node.children) > 0 /\ LevelOf(j) = LevelOf(p)}
  IN IF earlier = {} THEN 0
     ELSE LET j == CHOOSE j \in earlier : \A i \in earlier : i <= j
              c == CHOOSE c \in 1..Len(b) : b[c].parent = j /\ b[c].rank = 0
          IN YOf(c) + levelAdvance

\* C11: all children of one parent receive the same y, that y equals
\* max(y recorded for the children's level, parent y + 320), every child lies
\* at least 320 below its own parent, and no node of a deeper level is placed
\* at or above the y of a node of its parent's level.
C11_ChildYIsMax ==
  Laid =>
    LET b == LevelOrder(treeNodes)
    IN /\ Len(flow.nodes) = Len(b)
       /\ \A k \in 1..Len(b) : b[k].parent # 0 =>
            LET p == b[k].parent
            IN /\ \A l \in 1..Len(b) : b[l].parent = p => YOf(l) = YOf(k)
               /\ YOf(k) = Max(RecordedBefore(b, p), YOf(p) + verticalGap)
               /\ YOf(k) >= YOf(p) + verticalGap
               /\ \A m \in 1..Len(b) :
                    b[m].depth = b[p].depth => YOf(k) > YOf(m)

\* what treeToFlow does instead: the children take the recorded y of their
\* level when one is recorded, whatever the y of their parent
ChildYIsRecordedOrBelow ==
  Laid =>
    LET b == LevelOrder(treeNodes)
    IN /\ Len(flow.nodes) = Len(b)
       /\ \A k \in 1..Len(b) : b[k].parent # 0 =>
            LET p == b[k].parent
                recorded == RecordedBefore(b, p)
            IN /\ \A l \in 1..Len(b) : b[l].parent = p => YOf(l) = YOf(k)
               /\ YOf(k) = IF recorded # 0 THEN recorded
                                           ELSE YOf(p) + verticalGap

\* the width treeToFlow reserves for n children
SpacingOf(n) == Max(minSpacing, n * horizontalSpacing)

\* the indices, in the listing b, of the children of the p-th listed node
ChildrenOf(b, p) == {c \in 1..Len(b) : b[c].parent = p}

\* child i of every parent lies at px - W/2 + 160 + 320*i, W = max(360, 320*n)
ChildXFormula(b) ==
  \A k \in 1..Len(b) : b[k].parent # 0 =>
    LET p == b[k].parent
        n == Len(b[p].node.children)
    IN XOf(k) = XOf(p) - (SpacingOf(n) \div 2) + halfSpacing
                  + horizontalSpacing * b[k].rank

\* the sum of the x of the first and of the last child of the p-th node
FirstPlusLastX(b, p) ==
  LET first == CHOOSE c \in ChildrenOf(b, p) : b[c].rank = 0
      last  == CHOOSE c \in ChildrenOf(b, p) :
                 b[c].rank = Len(b[p].node.children) - 1
  IN XOf(first) + XOf(last)

\* C12 as stated: child i of a parent at px with n >= 1 children lies at
\* px - W/2 + 160 + 320*i with W = max(360, 320*n), and the midpoint of the
\* first and the last child's x is px for every n, n = 1 included.
C12_Original ==
  Laid =>
    LET b == LevelOrder(treeNodes)
    IN /\ Len(flow.nodes) = Len(b)
       /\ ChildXFormula(b)
       /\ \A p \in 1..Len(b) : Len(b[p].node.children) >= 1 =>
            FirstPlusLastX(b, p) = 2 * XOf(p)

\* C12 amended: child i of a parent at px with n >= 1 children lies at
\* px - W/2 + 160 + 320*i with W = max(360, 320*n); the midpoint of the first
\* and the last child's x is px for every n >= 2, and a single child lies at
\* px - 20.
C12_ChildX ==
  Laid =>
    LET b == LevelOrder(treeNodes)
    IN /\ Len(flow.nodes) = Len(b)
       /\ ChildXFormula(b)
       /\ \A p \in 1..Len(b) :
            /\ Len(b[p].node.children) >= 2 => FirstPlusLastX(b, p) = 2 * XOf(p)
            /\ Len(b[p].node.children) = 1 =>
                 \A c \in ChildrenOf(b, p) : XOf(c) = XOf(p) - 20

\* C12 witness: a laid out diagram with a parent of three children and a
\* parent of a single child, the single child 20 left of its parent
C12_Witness ==
  /\ Laid
  /\ Len(flow.nodes) = Len(LevelOrder(treeNodes))
  /\ \E p \in 1..Len(flow.nodes) : Len(LevelOrder(treeNodes)[p].node.children) = 3
  /\ \E p, c \in 1..Len(flow.nodes) :
       /\ Len(LevelOrder(treeNodes)[p].node.children) = 1
       /\ LevelOrder(treeNodes)[c].parent = p
       /\ XOf(c) = XOf(p) - 20

\* C13: the node list of treeToFlow is the tree in level order: the root is
\* first, every node comes after its parent, every node of depth d comes
\* before every node of depth d + 1, siblings come in child order; and the
\* edge list holds, for every non-root node and in the order of those nodes,
\* exactly one edge from the id of the node's parent to the node's id, named
\* "<parentId>-<childId>".
C13_LevelOrder ==
  Laid =>
    LET b == LevelOrder(treeNodes)
        n == Len(b)
    IN /\ Len(flow.nodes) = n
       /\ \A k \in 1..n : FlowFacts(flow.nodes[k]) = TreeFacts(b[k].node)
       /\ n >= 1 => FlowFacts(flow.nodes[1]) = TreeFacts(treeNodes[1])
       /\ \A k \in 2..n : b[k].parent \in 1..(k - 1)
       /\ \A k, l \in 1..n : b[l].depth = b[k].depth + 1 => k < l
       /\ \A k, l \in 1..n :
            (b[k].parent = b[l].parent /\ b[k].rank < b[l].rank) => k < l
       /\ \A k \in 2..n :
            b[k].node = b[b[k].parent].node.children[b[k].rank + 1]
       /\ Len(flow.edges) = n - 1
       /\ \A k \in 2..n :
            LET edge == flow.edges[k - 1]
            IN /\ edge.source = IdOf(b[k].parent)
               /\ edge.target = IdOf(k)
               /\ edge.id = IdOf(b[k].parent) \o <<"-">> \o IdOf(k)

\* C13 witness: a laid out tree whose level order differs from its
\* depth-first order, with its edges
C13_Witness ==
  /\ Laid
  /\ Len(flow.edges) >= 4
  /\ Len(flow.nodes) = Len(AllTreeNodes(treeNodes))
  /\ \E k \in 1..Len(flow.nodes) :
       FlowFacts(flow.nodes[k]) # TreeFacts(AllTreeNodes(treeNodes)[k])

\* ---------------------------------------------------------------------------
\* the ids of the node list searched are pairwise distinct
DistinctIds ==
  \A i, j \in 1..Len(flow.nodes) : IdOf(i) = IdOf(j) => i = j

\* C14: over a node list with pairwise distinct ids the result of searchNodes
\* is a subsequence of the id sequence of the list: every returned id is the
\* id of an input node, ids come in input order, and no id comes twice, also
\* for a node that meets both the exact and the containment condition.
C14_Subsequence ==
  (pc = "searched" /\ DistinctIds) =>
    /\ \A k \in 1..Len(matchingNodeIds) :
         \E i \in 1..Len(flow.nodes) : IdOf(i) = matchingNodeIds[k]
    /\ \A k, l \in 1..Len(matchingNodeIds) : k < l =>
         \E i, j \in 1..Len(flow.nodes) :
           /\ i < j
           /\ IdOf(i) = matchingNodeIds[k]
           /\ IdOf(j) = matchingNodeIds[l]
    /\ \A i \in 1..Len(flow.nodes) : CountOf(matchingNodeIds, IdOf(i)) <= 1

\* C14 witness: a search over distinct ids has returned several ids, one of
\* them of a node that meets both the exact and the containment condition
C14_Witness ==
  /\ pc = "searched"
  /\ DistinctIds
  /\ Len(matchingNodeIds) >= 3
  /\ \E i \in 1..Len(flow.nodes) :
       /\ exactMatch(PathOf(i), searchPatternOf(query))
       /\ containmentMatch(PathOf(i), searchPatternOf(query))
       /\ CountOf(matchingNodeIds, IdOf(i)) = 1

\* ---------------------------------------------------------------------------
\* The host and the pure pipeline side by side: the behaviours of Spec and
\* those of PureSpec.
AllInit == Init \/ PureInit

AllNext == Next \/ PureNext

AllSpec == AllInit /\ [][AllNext]_vars

\* C15: over every node list treeToFlow(jsonToTree(v)) a query that is not
\* blank makes searchNodes return a non-empty result that holds the root id
\* "$"; and in the host a search with a query that is not blank over a
\* displayed diagram of at least one node never ends in "No match found" and
\* leaves the root node highlighted.
C15_RootAlwaysFound ==
  /\ (pc = "searched" /\ Trim(query) # <<>>) =>
       /\ StartsWith(searchPatternOf(query), ROOT)
       /\ matchingNodeIds # <<>>
       /\ ROOT \in Found
  /\ (pc = "host" /\ lastAction = "search" /\ Trim(searchPath) # <<>>
        /\ nodes # <<>>) =>
       /\ searchMessage # <<"No match found">>
       /\ searchMessage # NoMessage
       /\ ROOT \in highlightedNodes
       /\ \E i \in 1..Len(nodes) : nodes[i].id = ROOT /\ IsHighlighted(nodes[i])

\* C15 witness: the host has searched a displayed diagram for "$.a", which
\* names one node, and reports two matches, the root among them
C15_Witness ==
  /\ pc = "host"
  /\ lastAction = "search"
  /\ searchPath = PATH_A
  /\ Len(nodes) = 5
  /\ searchMessage = <<"2", " match(es) found">>
  /\ IsHighlighted(nodes[1])

\* C15 witness, pure pipeline: a query that names no path of the list has
\* returned the root id alone
C15_WitnessRootOnly ==
  /\ pc = "searched"
  /\ Trim(query) # <<>>
  /\ Len(flow.nodes) >= 2
  /\ matchingNodeIds = <<ROOT>>

====
